---- MODULE Spec2Model ----
(***************************************************************************)
(* CAN bit-timing search of can-config (avr-can.py and main.py).           *)
(*                                                                         *)
(* Python floats are modelled as exact rationals [num, den] in lowest      *)
(* terms with den > 0.  For the inputs explored here the quotient          *)
(* cpu_freq / baudrate and its remainders are far from the rounding        *)
(* granularity of a double, so float %, int() and < agree with the exact   *)
(* rational operations.                                                    *)
(***************************************************************************)
EXTENDS Integers, Sequences, FiniteSets

VARIABLES prog, pc, exc,
          baudrate, cpu_freq, Tbit, valid_configs, min_err_rate, conf, header_text,
          baudrates, f_cpu, opt_header, opt_config, confs, k, header, stdout

vars == <<prog, pc, exc,
          baudrate, cpu_freq, Tbit, valid_configs, min_err_rate, conf, header_text,
          baudrates, f_cpu, opt_header, opt_config, confs, k, header, stdout>>

single_vars == <<baudrate, cpu_freq, Tbit, valid_configs, min_err_rate, conf, header_text>>
batch_vars  == <<baudrates, f_cpu, opt_header, opt_config, confs, k, header, stdout>>

---------------------------------------------------------------------------
(* Bounds of the explored input space.                                     *)

MaxBaud == 3          \* single run: baudrate in -MaxBaud..MaxBaud
MaxNegCpu == 30       \* single run: cpu_freq in -MaxNegCpu..MaxCpu
MaxCpu == 1110
MaxBatchLen == 3      \* batch run: at most this many --baudrate values
MaxBatchBaud == 4     \* batch run: each baudrate in 0..MaxBatchBaud

\* Inputs at the scale of real clocks, <<baudrate, cpu_freq>>: the documented
\* scenarios and two clocks that give 30 and 17 clocks per bit.
Scenarios == { <<500000, 16000000>>, <<1000000, 8000000>>, <<250000, 7500000>>,
               <<500000, 8500000>>, <<0, 8000000>>, <<500000, -1>> }

SingleInputs == ((-MaxBaud..MaxBaud) \X (-MaxNegCpu..MaxCpu)) \cup Scenarios

\* System clocks tried in batch runs (8000000 is the --f_cpu default).
BatchCpus == {36, 90, 8000000}

---------------------------------------------------------------------------
(* Values                                                                  *)

\* Python's None, and a local variable that has not been assigned yet.
None == [none |-> TRUE]
Unbound == [unbound |-> TRUE]

Abs(x) == IF x < 0 THEN -x ELSE x

RECURSIVE GCD(_, _)
GCD(a, b) == IF b = 0 THEN a ELSE GCD(b, a % b)

\* The number n / d (d # 0) in lowest terms.
Rat(n, d) ==
    LET s == IF d < 0 THEN -1 ELSE 1
        g == GCD(Abs(n), Abs(d))
    IN  [num |-> (s * n) \div g, den |-> (s * d) \div g]

RatLess(a, b) == a.num * b.den < b.num * a.den
RatLeq(a, b) == a.num * b.den <= b.num * a.den

\* x % m for a float x and a positive int m: the result lies in [0, m).
float_mod(x, m) == Rat(x.num % (m * x.den), x.den)

\* int(x / m) for a float x and a positive int m: truncation towards zero.
int_div(x, m) ==
    IF x.num >= 0 THEN x.num \div (m * x.den)
                  ELSE -((-x.num) \div (m * x.den))

\* int(h) where h = n / 2 or n / 2 + 1 for a non-negative int n.
half(n) == n \div 2

is_even(n) == n % 2 = 0

---------------------------------------------------------------------------
(* get_config: the body of one iteration of the Tbit loop                  *)

FirstTbit == 8
LastTbit == 25
MaxPrescaler == 2 ^ 6
Tsyns == 1
Tsjw == 1

clks_pr_bit_of(baud, cpu) == Rat(cpu, baud)

error_rate_of(clks, T) == float_mod(clks, T)

prescaler_of(clks, T) == int_div(clks, T)

PrescalerTooBig(prescaler) == prescaler > MaxPrescaler

Tprs_of(T) == IF is_even(T) THEN T \div 2 ELSE (T - 1) \div 2

Tph1_of(T) ==
    IF is_even(T - Tprs_of(T) - Tsyns) THEN half(Tprs_of(T))
                                       ELSE half(Tprs_of(T)) + 1

Tph2_of(T) == half(Tprs_of(T))

\* The condition of the range check: TRUE means the Tbit is skipped.
SegmentsInvalid_nosum(T, Tprs, Tph1, Tph2) ==
    \/ ~(1 <= Tprs /\ Tprs <= 8)
    \/ ~(1 <= Tph1 /\ Tph1 <= 8)
    \/ ~(2 <= Tph2 /\ Tph2 <= Tph1)
SegmentsInvalid_wide(T, Tprs, Tph1, Tph2) ==
    \/ T # Tsyns + Tprs + Tph1 + Tph2
    \/ ~(1 <= Tprs /\ Tprs <= 9)
    \/ ~(1 <= Tph1 /\ Tph1 <= 8)
    \/ ~(2 <= Tph2 /\ Tph2 <= Tph1)
SegmentsInvalid(T, Tprs, Tph1, Tph2) ==
    \/ T # Tsyns + Tprs + Tph1 + Tph2
    \/ ~(1 <= Tprs /\ Tprs <= 8)
    \/ ~(1 <= Tph1 /\ Tph1 <= 8)
    \/ ~(2 <= Tph2 /\ Tph2 <= Tph1)

DefaultMinErrRate == Rat(1, 2)        \* 0.5
RelaxedMinErrRate == Rat(158, 100)    \* 1.58

Override_loose(Tprs, Tph1, Tph2, sjw, baud) ==
    Tph1 = 4 /\ Tph2 = 4 /\ baud > 125 * 1000
Override(Tprs, Tph1, Tph2, sjw, baud) ==
    Tprs = 1 /\ (Tph1 = 4 /\ Tph2 = 4 /\ sjw = 4) /\ baud > 125 * 1000

min_err_rate_of(T, baud) ==
    IF Override(Tprs_of(T), Tph1_of(T), Tph2_of(T), Tsjw, baud)
    THEN RelaxedMinErrRate ELSE DefaultMinErrRate

Config(cpu, baud, prescaler, clks, T, syns, prs, ph1, ph2, sjw, err) ==
    [cpu_freq |-> cpu, baudrate |-> baud, prescaler |-> prescaler,
     clks_pr_bit |-> clks, Tbit |-> T, Tsyns |-> syns, Tprs |-> prs,
     Tph1 |-> ph1, Tph2 |-> ph2, Tsjw |-> sjw, error_rate |-> err]

ConfigAt(baud, cpu, T) ==
    LET clks == clks_pr_bit_of(baud, cpu)
    IN  Config(cpu, baud, prescaler_of(clks, T), clks, T, Tsyns,
               Tprs_of(T), Tph1_of(T), Tph2_of(T), Tsjw, error_rate_of(clks, T))

\* Which way one iteration goes.
SkipsPrescaler(baud, cpu, T) ==
    PrescalerTooBig(prescaler_of(clks_pr_bit_of(baud, cpu), T))

SkipsSegments(baud, cpu, T) ==
    /\ ~SkipsPrescaler(baud, cpu, T)
    /\ SegmentsInvalid(T, Tprs_of(T), Tph1_of(T), Tph2_of(T))

ReachesEmitTest(baud, cpu, T) ==
    /\ ~SkipsPrescaler(baud, cpu, T)
    /\ ~SegmentsInvalid(T, Tprs_of(T), Tph1_of(T), Tph2_of(T))

Emits(baud, cpu, T) ==
    /\ ReachesEmitTest(baud, cpu, T)
    /\ RatLess(error_rate_of(clks_pr_bit_of(baud, cpu), T), min_err_rate_of(T, baud))

---------------------------------------------------------------------------
(* get_config and best_error_rate as functions of their arguments          *)

\* The division in the first statement of get_config raises for baudrate 0.
ZeroDivision(baud) == baud = 0

\* valid_configs after the iterations FirstTbit..T (baud # 0).
RECURSIVE get_config_loop(_, _, _)
get_config_loop(baud, cpu, T) ==
    IF T < FirstTbit THEN <<>>
    ELSE LET prev == get_config_loop(baud, cpu, T - 1)
         IN  IF Emits(baud, cpu, T) THEN Append(prev, ConfigAt(baud, cpu, T))
                                    ELSE prev

get_config(baud, cpu) == get_config_loop(baud, cpu, LastTbit)

\* Insert c into the sorted sequence s behind every element whose key is
\* not greater: sorted() is stable.
insert_unstable(c, s) ==
    LET p == Cardinality({i \in 1..Len(s) : RatLess(s[i].error_rate, c.error_rate)})
    IN  SubSeq(s, 1, p) \o <<c>> \o SubSeq(s, p + 1, Len(s))
insert(c, s) ==
    LET p == Cardinality({i \in 1..Len(s) : RatLeq(s[i].error_rate, c.error_rate)})
    IN  SubSeq(s, 1, p) \o <<c>> \o SubSeq(s, p + 1, Len(s))

RECURSIVE sorted_prefix(_, _)
sorted_prefix(s, n) ==
    IF n = 0 THEN <<>> ELSE insert(s[n], sorted_prefix(s, n - 1))

\* sorted(confs, key=lambda config: config.error_rate)
sorted(s) == sorted_prefix(s, Len(s))

\* best_error_rate once get_config has returned cs.
best_of(cs) == IF cs = <<>> THEN None ELSE sorted(cs)[1]

best_error_rate(baud, cpu) == best_of(get_config(baud, cpu))

\* Config.header_defs of main.py, as <<name, value>> pairs.
header_defs(c) ==
    << <<"CAN_BAUDRATE", c.baudrate>>, <<"CAN_PRESCALER", c.prescaler>>,
       <<"CAN_CLKS_PR_BIT", c.clks_pr_bit>>, <<"CAN_TBIT", c.Tbit>>,
       <<"CAN_TSYNS", c.Tsyns>>, <<"CAN_TPRS", c.Tprs>>, <<"CAN_TPH1", c.Tph1>>,
       <<"CAN_TPH2", c.Tph2>>, <<"CAN_SJW", c.Tsjw>>,
       <<"CAN_ERR_RATE", c.error_rate>> >>

\* Config.create_header of avr-can.py: the #if block of one baudrate.
create_header(c) ==
    [block |-> "config", baudrate |-> c.baudrate,
     defs |-> << <<"CAN_PRESCALER", c.prescaler>>,
                 <<"CAN_CLKS_PR_BIT", c.clks_pr_bit>>, <<"CAN_TBIT", c.Tbit>>,
                 <<"CAN_TSYNS", c.Tsyns>>, <<"CAN_TPRS", c.Tprs>>,
                 <<"CAN_TPH1", c.Tph1>>, <<"CAN_TPH2", c.Tph2>>,
                 <<"CAN_SJW", c.Tsjw>>, <<"CAN_ERR_RATE", c.error_rate>> >>]

---------------------------------------------------------------------------
(* main.py: make_header(baud, cpu_freq, name), its calls stepped through   *)

InitSingle ==
    /\ prog = "main.py"
    /\ pc = "make_header"
    /\ exc = None
    /\ \E in \in SingleInputs : baudrate = in[1] /\ cpu_freq = in[2]
    /\ Tbit = Unbound
    /\ valid_configs = Unbound
    /\ min_err_rate = Unbound
    /\ conf = Unbound
    /\ header_text = Unbound
    /\ baudrates = Unbound /\ f_cpu = Unbound
    /\ opt_header = Unbound /\ opt_config = Unbound
    /\ confs = Unbound /\ k = Unbound /\ header = Unbound /\ stdout = Unbound

\* make_header -> best_error_rate -> get_config, up to the loop head.
CallGetConfig ==
    /\ prog = "main.py" /\ pc = "make_header"
    /\ ~ZeroDivision(baudrate)
    /\ valid_configs' = <<>>
    /\ Tbit' = FirstTbit
    /\ pc' = "loop"
    /\ UNCHANGED <<prog, exc, baudrate, cpu_freq, min_err_rate, conf, header_text, batch_vars>>

CallGetConfigZeroDivision ==
    /\ prog = "main.py" /\ pc = "make_header"
    /\ ZeroDivision(baudrate)
    /\ valid_configs' = <<>>
    /\ exc' = "ZeroDivisionError"
    /\ pc' = "raised"
    /\ UNCHANGED <<prog, baudrate, cpu_freq, Tbit, min_err_rate, conf, header_text, batch_vars>>

InLoop == prog = "main.py" /\ pc = "loop" /\ Tbit <= LastTbit

\* if prescaler > 2 ** 6: continue
LoopSkipPrescaler ==
    /\ InLoop
    /\ SkipsPrescaler(baudrate, cpu_freq, Tbit)
    /\ Tbit' = Tbit + 1
    /\ UNCHANGED <<prog, pc, exc, baudrate, cpu_freq, valid_configs, min_err_rate,
                   conf, header_text, batch_vars>>

\* the range check fails: continue
LoopSkipSegments ==
    /\ InLoop
    /\ SkipsSegments(baudrate, cpu_freq, Tbit)
    /\ Tbit' = Tbit + 1
    /\ UNCHANGED <<prog, pc, exc, baudrate, cpu_freq, valid_configs, min_err_rate,
                   conf, header_text, batch_vars>>

\* error_rate < min_err_rate: the Config is appended
LoopEmit ==
    /\ InLoop
    /\ ReachesEmitTest(baudrate, cpu_freq, Tbit)
    /\ min_err_rate' = min_err_rate_of(Tbit, baudrate)
    /\ RatLess(error_rate_of(clks_pr_bit_of(baudrate, cpu_freq), Tbit), min_err_rate')
    /\ valid_configs' = Append(valid_configs, ConfigAt(baudrate, cpu_freq, Tbit))
    /\ Tbit' = Tbit + 1
    /\ UNCHANGED <<prog, pc, exc, baudrate, cpu_freq, conf, header_text, batch_vars>>

\* error_rate >= min_err_rate: nothing is appended
LoopReject ==
    /\ InLoop
    /\ ReachesEmitTest(baudrate, cpu_freq, Tbit)
    /\ min_err_rate' = min_err_rate_of(Tbit, baudrate)
    /\ ~RatLess(error_rate_of(clks_pr_bit_of(baudrate, cpu_freq), Tbit), min_err_rate')
    /\ Tbit' = Tbit + 1
    /\ UNCHANGED <<prog, pc, exc, baudrate, cpu_freq, valid_configs, conf, header_text,
                   batch_vars>>

\* return valid_configs
GetConfigReturn ==
    /\ prog = "main.py" /\ pc = "loop" /\ Tbit > LastTbit
    /\ pc' = "get_config_done"
    /\ UNCHANGED <<prog, exc, single_vars, batch_vars>>

\* best_error_rate: None for an empty list, else the head of the sorted list
BestErrorRateReturn ==
    /\ prog = "main.py" /\ pc = "get_config_done"
    /\ conf' = best_of(valid_configs)
    /\ pc' = "best_done"
    /\ UNCHANGED <<prog, exc, baudrate, cpu_freq, Tbit, valid_configs, min_err_rate,
                   header_text, batch_vars>>

\* conf.header_defs() and the rest of make_header
MakeHeaderReturn ==
    /\ prog = "main.py" /\ pc = "best_done"
    /\ conf # None
    /\ header_text' = header_defs(conf)
    /\ pc' = "header_done"
    /\ UNCHANGED <<prog, exc, baudrate, cpu_freq, Tbit, valid_configs, min_err_rate,
                   conf, batch_vars>>

\* conf.header_defs() with conf = None
MakeHeaderAttributeError ==
    /\ prog = "main.py" /\ pc = "best_done"
    /\ conf = None
    /\ exc' = "AttributeError"
    /\ pc' = "raised"
    /\ UNCHANGED <<prog, single_vars, batch_vars>>

---------------------------------------------------------------------------
(* avr-can.py: main() over a list of baudrates                             *)

RECURSIVE SeqsUpTo(_, _)
SeqsUpTo(S, n) ==
    IF n = 0 THEN {<<>>}
    ELSE LET shorter == SeqsUpTo(S, n - 1)
         IN  shorter \cup {Append(s, x) : s \in shorter, x \in S}

BatchInputs == SeqsUpTo(0..MaxBatchBaud, MaxBatchLen)

InitBatch ==
    /\ prog = "avr-can.py"
    /\ pc = "main"
    /\ exc = None
    /\ baudrates \in BatchInputs
    /\ f_cpu \in BatchCpus
    /\ opt_header \in BOOLEAN
    /\ opt_config \in BOOLEAN
    /\ confs = Unbound /\ k = Unbound /\ header = Unbound
    /\ stdout = <<>>
    /\ baudrate = Unbound /\ cpu_freq = Unbound /\ Tbit = Unbound
    /\ valid_configs = Unbound /\ min_err_rate = Unbound
    /\ conf = Unbound /\ header_text = Unbound

\* confs = [best_error_rate(baudrate, args.f_cpu) for baudrate in args.baudrates]
Comprehension ==
    /\ prog = "avr-can.py" /\ pc = "main"
    /\ \A i \in 1..Len(baudrates) : ~ZeroDivision(baudrates[i])
    /\ confs' = [i \in 1..Len(baudrates) |-> best_error_rate(baudrates[i], f_cpu)]
    /\ pc' = "check_empty"
    /\ UNCHANGED <<prog, exc, single_vars, baudrates, f_cpu, opt_header, opt_config,
                   k, header, stdout>>

ComprehensionZeroDivision ==
    /\ prog = "avr-can.py" /\ pc = "main"
    /\ \E i \in 1..Len(baudrates) : ZeroDivision(baudrates[i])
    /\ exc' = "ZeroDivisionError"
    /\ pc' = "raised"
    /\ UNCHANGED <<prog, single_vars, batch_vars>>

\* if confs == []: print(...); exit(1)
NoBaudrates ==
    /\ prog = "avr-can.py" /\ pc = "check_empty"
    /\ confs = <<>>
    /\ stdout' = Append(stdout, [msg |-> "No valid baudrate config found"])
    /\ pc' = "exit_1"
    /\ UNCHANGED <<prog, exc, single_vars, baudrates, f_cpu, opt_header, opt_config,
                   confs, k, header>>

\* zipped = zip(args.baudrates, confs); if args.header: header = ""
EnterHeaderLoop ==
    /\ prog = "avr-can.py" /\ pc = "check_empty"
    /\ confs # <<>>
    /\ opt_header
    /\ header' = <<>>
    /\ k' = 1
    /\ pc' = "header_loop"
    /\ UNCHANGED <<prog, exc, single_vars, baudrates, f_cpu, opt_header, opt_config,
                   confs, stdout>>

EnterPrintLoop ==
    /\ prog = "avr-can.py" /\ pc = "check_empty"
    /\ confs # <<>>
    /\ ~opt_header
    /\ k' = 1
    /\ pc' = "print_loop"
    /\ UNCHANGED <<prog, exc, single_vars, baudrates, f_cpu, opt_header, opt_config,
                   confs, header, stdout>>

\* The k-th pair of zipped.
Zipped(i) == <<baudrates[i], confs[i]>>

\* conf[1] is None: the #error block, then continue
HeaderErrorBlock_break ==
    /\ prog = "avr-can.py" /\ pc = "header_loop" /\ k <= Len(confs)
    /\ Zipped(k)[2] = None
    /\ header' = Append(header, [block |-> "error", baudrate |-> Zipped(k)[1]])
    /\ k' = Len(confs) + 1
    /\ UNCHANGED <<prog, pc, exc, single_vars, baudrates, f_cpu, opt_header, opt_config,
                   confs, stdout>>
HeaderErrorBlock ==
    /\ prog = "avr-can.py" /\ pc = "header_loop" /\ k <= Len(confs)
    /\ Zipped(k)[2] = None
    /\ header' = Append(header, [block |-> "error", baudrate |-> Zipped(k)[1]])
    /\ k' = k + 1
    /\ UNCHANGED <<prog, pc, exc, single_vars, baudrates, f_cpu, opt_header, opt_config,
                   confs, stdout>>

\* header += conf.create_header()
HeaderConfigBlock ==
    /\ prog = "avr-can.py" /\ pc = "header_loop" /\ k <= Len(confs)
    /\ Zipped(k)[2] # None
    /\ header' = Append(header, create_header(Zipped(k)[2]))
    /\ k' = k + 1
    /\ UNCHANGED <<prog, pc, exc, single_vars, baudrates, f_cpu, opt_header, opt_config,
                   confs, stdout>>

\* print(wrap_header(header, "can_baud"))
PrintHeader ==
    /\ prog = "avr-can.py" /\ pc = "header_loop" /\ k > Len(confs)
    /\ stdout' = Append(stdout, [msg |-> "header", file_name |-> "CAN_BAUD",
                                 contents |-> header])
    /\ pc' = "done"
    /\ UNCHANGED <<prog, exc, single_vars, baudrates, f_cpu, opt_header, opt_config,
                   confs, k, header>>

\* conf[1] is None: the "No valid config found" line, then continue
PrintNoConfig_break ==
    /\ prog = "avr-can.py" /\ pc = "print_loop" /\ k <= Len(confs)
    /\ Zipped(k)[2] = None
    /\ stdout' = Append(stdout, [msg |-> "No valid config found",
                                 baudrate |-> Zipped(k)[1]])
    /\ k' = Len(confs) + 1
    /\ UNCHANGED <<prog, pc, exc, single_vars, baudrates, f_cpu, opt_header, opt_config,
                   confs, header>>
PrintNoConfig ==
    /\ prog = "avr-can.py" /\ pc = "print_loop" /\ k <= Len(confs)
    /\ Zipped(k)[2] = None
    /\ stdout' = Append(stdout, [msg |-> "No valid config found",
                                 baudrate |-> Zipped(k)[1]])
    /\ k' = k + 1
    /\ UNCHANGED <<prog, pc, exc, single_vars, baudrates, f_cpu, opt_header, opt_config,
                   confs, header>>

\* The lines printed for one found configuration.
ConfigLines(c, with_config) ==
    << [msg |-> "summary", cpu_freq |-> c.cpu_freq, baudrate |-> c.baudrate,
        error_rate |-> c.error_rate] >>
    \o IF with_config
       THEN << [msg |-> "Config at Time Quantum = 1", prescaler |-> c.prescaler,
                Tbit |-> c.Tbit, Tsyns |-> c.Tsyns, Tprs |-> c.Tprs,
                Tph1 |-> c.Tph1, Tph2 |-> c.Tph2, Tsjw |-> c.Tsjw] >>
       ELSE <<>>

PrintConfig ==
    /\ prog = "avr-can.py" /\ pc = "print_loop" /\ k <= Len(confs)
    /\ Zipped(k)[2] # None
    /\ stdout' = stdout \o ConfigLines(Zipped(k)[2], opt_config)
    /\ k' = k + 1
    /\ UNCHANGED <<prog, pc, exc, single_vars, baudrates, f_cpu, opt_header, opt_config,
                   confs, header>>

PrintLoopEnd ==
    /\ prog = "avr-can.py" /\ pc = "print_loop" /\ k > Len(confs)
    /\ pc' = "done"
    /\ UNCHANGED <<prog, exc, single_vars, batch_vars>>

---------------------------------------------------------------------------

Init == InitSingle \/ InitBatch

Next ==
    \/ CallGetConfig
    \/ CallGetConfigZeroDivision
    \/ LoopSkipPrescaler
    \/ LoopSkipSegments
    \/ LoopEmit
    \/ LoopReject
    \/ GetConfigReturn
    \/ BestErrorRateReturn
    \/ MakeHeaderReturn
    \/ MakeHeaderAttributeError
    \/ Comprehension
    \/ ComprehensionZeroDivision
    \/ NoBaudrates
    \/ EnterHeaderLoop
    \/ EnterPrintLoop
    \/ HeaderErrorBlock
    \/ HeaderConfigBlock
    \/ PrintHeader
    \/ PrintNoConfig
    \/ PrintConfig
    \/ PrintLoopEnd

Spec == Init /\ [][Next]_vars

\* The stepped loop and the function get_config agree.
LoopMatchesFunction ==
    (prog = "main.py" /\ pc = "loop")
        => valid_configs = get_config_loop(baudrate, cpu_freq, Tbit - 1)

---------------------------------------------------------------------------
(* Properties                                                              *)

\* get_config has returned its list to best_error_rate.
Returned ==
    /\ prog = "main.py"
    /\ \/ pc \in {"get_config_done", "best_done", "header_done"}
       \/ pc = "raised" /\ exc = "AttributeError"

\* best_error_rate has returned.
Selected ==
    /\ prog = "main.py"
    /\ \/ pc \in {"best_done", "header_done"}
       \/ pc = "raised" /\ exc = "AttributeError"

\* valid_configs holds a list (it is assigned by the first statement).
HasList == prog = "main.py" /\ pc # "make_header"

PositiveInput == prog = "main.py" /\ baudrate > 0 /\ cpu_freq > 0

Half == Rat(1, 2)
Zero == Rat(0, 1)

\* C1: for positive baudrate and cpu_freq every candidate returned by
\* get_config has Tbit in 8..25, Tbit = Tsyns + Tprs + Tph1 + Tph2 with
\* Tsyns = 1, 1 <= Tprs <= 8, 1 <= Tph1 <= 8, 2 <= Tph2 <= Tph1, Tsjw = 1,
\* prescaler <= 64 and error_rate < 0.5.
C1_CandidatesValid ==
    (Returned /\ PositiveInput) =>
        \A i \in 1..Len(valid_configs) :
            LET c == valid_configs[i]
            IN  /\ c.Tbit \in 8..25
                /\ c.Tbit = c.Tsyns + c.Tprs + c.Tph1 + c.Tph2
                /\ c.Tsyns = 1
                /\ 1 <= c.Tprs /\ c.Tprs <= 8
                /\ 1 <= c.Tph1 /\ c.Tph1 <= 8
                /\ 2 <= c.Tph2 /\ c.Tph2 <= c.Tph1
                /\ c.Tsjw = 1
                /\ c.prescaler <= 64
                /\ RatLess(c.error_rate, Half)

\* A returned list that holds a candidate at the prescaler limit.
C1_Witness ==
    /\ Returned /\ PositiveInput
    /\ \E i \in 1..Len(valid_configs) : valid_configs[i].prescaler = 64

\* C2: for baudrate <= 0 or cpu_freq <= 0 the search fails before any
\* candidate is produced: no candidate is appended, get_config never returns
\* a list and best_error_rate never returns, the run ends by raising.
C2_NonPositiveInputFails ==
    (prog = "main.py" /\ (baudrate <= 0 \/ cpu_freq <= 0)) =>
        /\ ~Returned
        /\ HasList => valid_configs = <<>>

\* C3: for positive inputs with cpu_freq / baudrate < 8 get_config returns
\* an empty list without raising and best_error_rate returns None.
C3_BelowEightIsEmpty ==
    (PositiveInput /\ cpu_freq < 8 * baudrate) =>
        /\ pc # "raised" \/ exc # "ZeroDivisionError"
        /\ Returned => valid_configs = <<>>
        /\ Selected => conf = None

\* C4: for positive inputs best_error_rate returns None iff get_config's list
\* is empty; otherwise it returns a candidate of the list whose error_rate is
\* minimal, the first such in list order, which has the smallest Tbit among
\* the minimal ones because the list is in strictly ascending Tbit order.
C4_BestIsFirstMinimum ==
    (Selected /\ PositiveInput) =>
        /\ (conf = None) <=> (valid_configs = <<>>)
        /\ \A i, j \in 1..Len(valid_configs) :
               i < j => valid_configs[i].Tbit < valid_configs[j].Tbit
        /\ conf # None =>
               \E i \in 1..Len(valid_configs) :
                   /\ valid_configs[i] = conf
                   /\ \A j \in 1..Len(valid_configs) :
                          /\ RatLeq(conf.error_rate, valid_configs[j].error_rate)
                          /\ j < i => RatLess(conf.error_rate, valid_configs[j].error_rate)
                          /\ valid_configs[j].error_rate = conf.error_rate
                                 => conf.Tbit <= valid_configs[j].Tbit

\* best_error_rate chose among three candidates of equal, minimal error.
C4_Witness ==
    /\ Selected /\ PositiveInput
    /\ conf # None
    /\ Len(valid_configs) >= 3
    /\ \A j \in 1..Len(valid_configs) : valid_configs[j].error_rate = conf.error_rate
    /\ conf = valid_configs[1]

\* Some Tbit in 8..25 divides the integer clks_pr_bit with quotient <= 64.
ExactDivisionExists ==
    /\ cpu_freq % baudrate = 0
    /\ \E T \in 8..25 :
           /\ (cpu_freq \div baudrate) % T = 0
           /\ (cpu_freq \div baudrate) \div T <= 64

\* C5: for positive inputs where clks_pr_bit is an integer that some Tbit in
\* 8..25 divides with quotient at most 64, get_config emits a candidate with
\* error_rate = 0 and best_error_rate returns one with error_rate = 0; for
\* 16000000 / 500000 there is a candidate Tbit = 16, prescaler = 2,
\* error_rate = 0, and for 8000000 / 1000000 the candidate Tbit = 8,
\* prescaler = 1, error_rate = 0 is emitted and selected.
C5_ExactDivisionFound ==
    (Returned /\ PositiveInput /\ ExactDivisionExists) =>
        /\ \E i \in 1..Len(valid_configs) : valid_configs[i].error_rate = Zero
        /\ Selected => (conf # None /\ conf.error_rate = Zero)
        /\ (baudrate = 500000 /\ cpu_freq = 16000000) =>
               \E i \in 1..Len(valid_configs) :
                   /\ valid_configs[i].Tbit = 16
                   /\ valid_configs[i].prescaler = 2
                   /\ valid_configs[i].error_rate = Zero
        /\ (baudrate = 1000000 /\ cpu_freq = 8000000) =>
               /\ \E i \in 1..Len(valid_configs) :
                      /\ valid_configs[i].Tbit = 8
                      /\ valid_configs[i].prescaler = 1
                      /\ valid_configs[i].error_rate = Zero
               /\ Selected => (conf # None /\ conf.Tbit = 8)

\* C6: for positive inputs every returned candidate has
\* prescaler = floor(clks_pr_bit / Tbit) and 1 <= prescaler <= 64.
C6_PrescalerRange ==
    (Returned /\ PositiveInput) =>
        \A i \in 1..Len(valid_configs) :
            LET c == valid_configs[i]
            IN  /\ c.prescaler = cpu_freq \div (baudrate * c.Tbit)
                /\ 1 <= c.prescaler /\ c.prescaler <= 64

\* The report entries of a finished batch run, one per loop iteration: the
\* blocks of the header, or the printed lines without the --config details.
IsEntryLine(line) == line.msg \in {"summary", "No valid config found"}

Entries ==
    IF opt_header THEN stdout[1].contents ELSE SelectSeq(stdout, IsEntryLine)

\* The entry expected for baudrate b: search then best for b alone.
EntryMatches(e, b) ==
    LET r == best_of(get_config(b, f_cpu))
    IN  IF opt_header
        THEN IF r = None THEN e = [block |-> "error", baudrate |-> b]
                         ELSE e = create_header(r) /\ e.baudrate = b
        ELSE IF r = None THEN e = [msg |-> "No valid config found", baudrate |-> b]
                         ELSE /\ e.msg = "summary"
                              /\ e.baudrate = b
                              /\ e.cpu_freq = f_cpu
                              /\ e.error_rate = r.error_rate

PositiveBatch ==
    /\ prog = "avr-can.py"
    /\ baudrates # <<>>
    /\ \A i \in 1..Len(baudrates) : baudrates[i] > 0
    /\ f_cpu > 0

\* C7: in a batch run over a non-empty list of positive baudrates the run
\* does not abort, and when it is done there is exactly one entry per
\* requested baudrate, in input order, each the result of search then best
\* for that baudrate alone; a baudrate without a result is reported as
\* having no valid config and the baudrates around it are still reported.
C7_BatchReportsEveryBaudrate ==
    PositiveBatch =>
        /\ pc \notin {"raised", "exit_1"}
        /\ pc = "done" =>
               /\ opt_header => (Len(stdout) = 1 /\ stdout[1].msg = "header")
               /\ Len(Entries) = Len(baudrates)
               /\ \A i \in 1..Len(baudrates) : EntryMatches(Entries[i], baudrates[i])

\* A finished batch whose middle baudrate has no configuration while the
\* baudrates before and after it have one.
C7_Witness ==
    /\ PositiveBatch /\ pc = "done"
    /\ Len(baudrates) = 3
    /\ confs[1] # None /\ confs[2] = None /\ confs[3] # None

\* C8: for every input the threshold in force at every emit test is 0.5 (the
\* override to 1.58 is never taken, Tsjw being 1 in every candidate), so no
\* candidate with error_rate >= 0.5 is ever emitted.
C8_ThresholdAlwaysHalf ==
    /\ min_err_rate \in {Unbound, DefaultMinErrRate}
    /\ HasList =>
           \A i \in 1..Len(valid_configs) :
               /\ valid_configs[i].Tsjw = 1
               /\ RatLess(valid_configs[i].error_rate, Half)

\* The emit test of Tbit = 17 (Tph1 = Tph2 = 4) was just made for a
\* baudrate above 125000.
C8_Witness ==
    /\ prog = "main.py" /\ pc = "loop" /\ Tbit = 18
    /\ baudrate > 125 * 1000
    /\ ReachesEmitTest(baudrate, cpu_freq, 17)
    /\ min_err_rate = DefaultMinErrRate

\* C9: for positive inputs make_header completes without raising, also when
\* best_error_rate returns None.
C9_MakeHeaderHandlesNone ==
    PositiveInput => pc # "raised"

SevenSegmentations ==
    { <<9, 4, 2, 2>>, <<10, 5, 2, 2>>, <<11, 5, 3, 2>>, <<13, 6, 3, 3>>,
      <<14, 7, 3, 3>>, <<15, 7, 4, 3>>, <<17, 8, 4, 4>> }

\* C10: whatever the input, every candidate's (Tbit, Tprs, Tph1, Tph2) is one
\* of (9,4,2,2), (10,5,2,2), (11,5,3,2), (13,6,3,3), (14,7,3,3), (15,7,4,3),
\* (17,8,4,4); Tbit 8, 12, 16 and 18..25 are never emitted.
C10_OnlySevenTbits ==
    HasList =>
        \A i \in 1..Len(valid_configs) :
            LET c == valid_configs[i]
            IN  /\ <<c.Tbit, c.Tprs, c.Tph1, c.Tph2>> \in SevenSegmentations
                /\ c.Tbit \notin ({8, 12, 16} \cup (18..25))

\* A returned list for positive inputs that holds all seven.
C10_Witness ==
    /\ Returned /\ PositiveInput
    /\ {valid_configs[i].Tbit : i \in 1..Len(valid_configs)} = {9, 10, 11, 13, 14, 15, 17}

====
